---- MODULE Spec2Model ----
(***************************************************************************)
(* A model of git-lost (src/gitlostapi/__init__.py): the branch clean-up   *)
(* driver `main`, the analysis `_examine_branch` and the prompt/delete     *)
(* step `_request_removal`, run against a small git repository.            *)
(*                                                                         *)
(* Names are sequences of path components: the ref refs/heads/main is      *)
(* <<"refs","heads","main">>, the branch name main is <<"main">> and the   *)
(* listing entry remotes/origin/main is <<"remotes","origin","main">>.     *)
(***************************************************************************)
EXTENDS Integers, Sequences, FiniteSets, TLC

\* ------------------------------------------------------------------ bounds
\* commits are 1..MaxCommit
MaxCommit == 2
\* at most MaxRefs refs exist in the repository when the tool starts
MaxRefs == 3
\* the same, for the runs that are followed by a second run
MaxRefsTwice == 2
\* the same, for the runs whose fetch finds the remotes changed
MaxRefsFetch == 2
\* in those runs, on at most MaxMoved branches does a remote differ from its
\* remote-tracking ref
MaxMoved == 1

\* ------------------------------------------------- the repository (backend)
Commits == 1..MaxCommit

\* the commit graph: a is an ancestor of b, or b itself, iff a divides b
\* (1 is the root; 2 and 3 are siblings; 4 is a child of 2; 6 merges 2 and 3)
IsAncestor(a, b) == b % a = 0

LocalNames == {<<"develop">>, <<"fa">>, <<"fb">>, <<"main">>}
RemoteNames == {"origin", "upstream"}
RemoteBranches == {<<"origin", "fb">>, <<"origin", "main">>, <<"upstream", "main">>}
TagNames == {<<"v1">>}

HeadRef(n) == <<"refs", "heads">> \o n
RemoteRef(rb) == <<"refs", "remotes">> \o rb
TagRef(t) == <<"refs", "tags">> \o t
SymRef(r) == <<"refs", "remotes", r, "HEAD">>

\* every ref the repository may hold, in the order `git show-ref` lists them
\* (sorted by full ref name)
RefOrder ==
    << <<"refs", "heads", "develop">>,
       <<"refs", "heads", "fa">>,
       <<"refs", "heads", "fb">>,
       <<"refs", "heads", "main">>,
       <<"refs", "remotes", "origin", "HEAD">>,
       <<"refs", "remotes", "origin", "fb">>,
       <<"refs", "remotes", "origin", "main">>,
       <<"refs", "remotes", "upstream", "HEAD">>,
       <<"refs", "remotes", "upstream", "main">>,
       <<"refs", "tags", "v1">> >>

AllRefs == {HeadRef(n) : n \in LocalNames} \cup {RemoteRef(rb) : rb \in RemoteBranches}
              \cup {TagRef(t) : t \in TagNames}

NoBranch == <<>>
NoTarget == <<>>

VARIABLES
    refs,       \* the repository: ref -> commit it points to, 0 when absent
    symHead,    \* remote -> branch its refs/remotes/<remote>/HEAD points to, <<>> if none
    HEAD,       \* [branch |-> active branch or NoBranch, commit |-> commit when detached]
    pc,         \* where `main` is: "init","inventory","loop","perm","fallback","done","fatal","crashed"
    err,        \* the exception that ended the run, "" if none
    permanent,  \* main: the permanent branch list
    remotes,    \* main: the remote list
    heads,      \* main: the list `repo.heads` the loop iterates
    i,          \* main: position of the loop in heads
    target,     \* _examine_branch: the target found by the permanent-branch pass
    tryRemote,  \* _examine_branch: remote-qualified descendants not yet offered
    tryAgain,   \* _examine_branch: the other descendants not yet offered
    prompts,    \* history: the prompts issued, and whether each was accepted
    lastAnswer, \* history: what the user typed at the latest prompt
    ops,        \* history: the checkout and delete commands issued
    examined,   \* history: the branches _examine_branch was called for
    refs0,      \* history: refs when the run started
    run,        \* which invocation of the tool this is
    prev,       \* history: the previous invocation's policy and prompts
    upstream,   \* the remotes: branch of a remote -> commit it is at there, 0 when absent
    inventory   \* history: the listing _get_refs read and what it made of it

vars == <<refs, symHead, HEAD, pc, err, permanent, remotes, heads, i, target,
          tryRemote, tryAgain, prompts, lastAnswer, ops, examined, refs0, run, prev, upstream, inventory>>

\* the commit a ref points to contains commit c
Contains(tip, c) == tip # 0 /\ c # 0 /\ IsAncestor(c, tip)

IsPrefix(p, s) == Len(p) <= Len(s) /\ SubSeq(s, 1, Len(p)) = p

\* ---------------------------------------------------------------- git show-ref
IsSymRef(r) == Len(r) = 4 /\ r[1] = "refs" /\ r[2] = "remotes" /\ r[4] = "HEAD"

\* the commit a ref resolves to, 0 when the ref does not exist
Resolve(r) ==
    IF IsSymRef(r)
    THEN IF symHead[r[3]] = NoBranch THEN 0 ELSE refs[RemoteRef(<<r[3]>> \o symHead[r[3]])]
    ELSE refs[r]

\* the output of `git show-ref`: one line <<sha, ref>> per existing ref
ShowRef ==
    LET Exists(r) == Resolve(r) # 0
        listed == SelectSeq(RefOrder, Exists)
    IN  [k \in 1..Len(listed) |-> <<Resolve(listed[k]), listed[k]>>]

Tail2(r) == SubSeq(r, 3, Len(r))

\* _get_refs: classify the lines of a ref listing
RECURSIVE GetRefsFrom(_, _)
GetRefsFrom(lines, acc) ==
    IF lines = <<>> \/ acc.error # "" THEN acc
    ELSE
      LET ref == Head(lines)[2]
          rest == Tail(lines)
      IN  IF ~IsPrefix(<<"refs">>, ref) \/ Len(ref) < 2
          THEN [acc EXCEPT !.error = "AssertionError"]
          ELSE IF IsPrefix(<<"refs", "heads">>, ref) /\ Len(ref) > 2
          THEN GetRefsFrom(rest, [acc EXCEPT !.local = @ \cup {Tail2(ref)}])
          ELSE IF IsPrefix(<<"refs", "tags">>, ref) /\ Len(ref) > 2
          THEN GetRefsFrom(rest, [acc EXCEPT !.tags = @ \cup {Tail2(ref)}])
          ELSE IF IsPrefix(<<"refs", "remotes">>, ref) /\ Len(ref) > 2
          THEN IF ref[Len(ref)] = "HEAD"
               THEN GetRefsFrom(rest, acc)
               ELSE IF Len(ref) = 3
               THEN [acc EXCEPT !.error = "ValueError"]
               ELSE LET name == ref[3]
                        branch == SubSeq(ref, 4, Len(ref))
                        known == \E k \in 1..Len(acc.remoteOrder) : acc.remoteOrder[k] = name
                    IN  GetRefsFrom(rest,
                          [acc EXCEPT
                             !.remoteOrder = IF known THEN @ ELSE Append(@, name),
                             !.remote = @ \cup {<<name, branch>>}])
          ELSE IF ref = <<"refs", "stash">>
          THEN GetRefsFrom(rest, acc)
          ELSE [acc EXCEPT !.error = "Exception"]

GetRefs(lines) ==
    GetRefsFrom(lines, [local |-> {}, remoteOrder |-> <<>>, remote |-> {},
                        tags |-> {}, error |-> ""])

\* nothing read yet
NoInventory == [lines |-> <<>>, got |-> GetRefs(<<>>)]

\* ------------------------------------------- git branch --all --contains=<b>
\* the lines of the listing: a two-character marker, then the entry's text
BranchContainsLines(rf, hd, b) ==
    LET c == rf[HeadRef(b)]
        Mark(n) == IF hd.branch = n THEN "* " ELSE "  "
    IN  {[mark |-> Mark(n), text |-> n] :
            n \in {m \in LocalNames : Contains(rf[HeadRef(m)], c)}}
        \cup {[mark |-> "  ", text |-> <<"remotes">> \o rb] :
                rb \in {x \in RemoteBranches : Contains(rf[RemoteRef(x)], c)}}
        \cup {[mark |-> "  ", text |-> <<"remotes", r, "HEAD -> ", r>> \o symHead[r]] :
                r \in {x \in RemoteNames :
                         /\ symHead[x] # NoBranch
                         /\ Contains(rf[RemoteRef(<<x>> \o symHead[x])], c)}}
        \cup {[mark |-> "* ", text |-> <<"(HEAD detached)">>] :
                x \in {y \in {0} : hd.branch = NoBranch /\ Contains(hd.commit, c)}}

\* (the branch itself stays among its descendants)
DescendantsWithSelf(rf, hd, b) == {l.text : l \in BranchContainsLines(rf, hd, b)}

\* (tags that contain the branch are listed too)
DescendantsWithTags(rf, hd, b) ==
    ({l.text : l \in BranchContainsLines(rf, hd, b)} \ {b})
        \cup {<<"tags">> \o t : t \in {x \in TagNames : Contains(rf[TagRef(x)], rf[HeadRef(b)])}}

\* _examine_branch, lines 119-123: the entries with the marker cut off, less
\* the branch itself
Descendants(rf, hd, b) ==
    {l.text : l \in BranchContainsLines(rf, hd, b)} \ {b}

\* ------------------------------------------------ the permanent-branch pass
RemoteQualified(remote, perm) == <<"remotes", remote>> \o perm

RECURSIVE RemoteScan(_, _, _, _)
RemoteScan(desc, rems, perm, k) ==
    IF k > Len(rems) THEN NoTarget
    ELSE IF RemoteQualified(rems[k], perm) \in desc
         THEN RemoteQualified(rems[k], perm)
         ELSE RemoteScan(desc, rems, perm, k + 1)

RECURSIVE PermScan(_, _, _, _)
PermScan(desc, perms, rems, k) ==
    IF k > Len(perms) THEN NoTarget
    ELSE IF perms[k] \in desc
         THEN perms[k]
         ELSE LET r == RemoteScan(desc, rems, perms[k], 1)
              IN  IF r # NoTarget THEN r ELSE PermScan(desc, perms, rems, k + 1)

\* (checks the first permanent branch only)
PermTargetFirstOnly(desc, perms, rems) ==
    IF perms = <<>> THEN NoTarget ELSE PermScan(desc, <<perms[1]>>, rems, 1)

\* (tries every local permanent ref before any remote copy)
PermTargetLocalsFirst(desc, perms, rems) ==
    LET hits == {k \in 1..Len(perms) : perms[k] \in desc}
    IN  IF hits # {}
        THEN perms[CHOOSE k \in hits : \A h \in hits : k <= h]
        ELSE PermScan(desc, perms, rems, 1)

\* (the permanent-branch pass is left out)
PermTargetNone(desc, perms, rems) == NoTarget

\* _examine_branch, lines 125-138: the target the first pass selects
PermTarget(desc, perms, rems) == PermScan(desc, perms, rems, 1)

\* `other.startswith('remotes/')`
IsRemoteEntry(other) == Len(other) > 1 /\ other[1] = "remotes"

\* ------------------------------------------------------------- git checkout
\* `git checkout <name>`: an existing local branch is checked out; a name
\* that only one remote has becomes a new local branch tracking it; anything
\* else fails
Checkout(rf, hd, name) ==
    LET cands == {rb \in RemoteBranches : rf[RemoteRef(rb)] # 0 /\ Tail(rb) = name}
    IN  IF HeadRef(name) \in DOMAIN rf /\ rf[HeadRef(name)] # 0
        THEN [ok |-> TRUE, refs |-> rf, HEAD |-> [branch |-> name, commit |-> 0]]
        ELSE IF HeadRef(name) \in DOMAIN rf /\ Cardinality(cands) = 1
        THEN [ok |-> TRUE,
              refs |-> [rf EXCEPT ![HeadRef(name)] =
                           rf[RemoteRef(CHOOSE rb \in cands : TRUE)]],
              HEAD |-> [branch |-> name, commit |-> 0]]
        ELSE [ok |-> FALSE, refs |-> rf, HEAD |-> hd]

\* (the remote-tracking refs of the same name are deleted along with it)
DeleteBranchAndTracking(rf, hd, name) ==
    IF hd.branch = name \/ rf[HeadRef(name)] = 0
    THEN [ok |-> FALSE, refs |-> rf]
    ELSE [ok |-> TRUE,
          refs |-> [r \in AllRefs |->
                      IF r = HeadRef(name)
                         \/ \E rb \in RemoteBranches : r = RemoteRef(rb) /\ Tail(rb) = name
                      THEN 0 ELSE rf[r]]]

\* `git branch -D <name>`: git refuses to delete the checked-out branch
DeleteBranch(rf, hd, name) ==
    IF hd.branch = name \/ rf[HeadRef(name)] = 0
    THEN [ok |-> FALSE, refs |-> rf]
    ELSE [ok |-> TRUE, refs |-> [rf EXCEPT ![HeadRef(name)] = 0]]

\* ------------------------------------------------------------ click.confirm
Answers == {"y", "n", ""}

\* click.confirm(msg, default): an empty answer takes the default
ClickConfirm(answer, default) == IF answer = "" THEN default ELSE answer = "y"

ConfirmDefaultYes == TRUE

\* _request_removal, line 192: `default=False`
ConfirmDefault == FALSE

\* --------------------------------------------------------- _request_removal
\* (the exit status of the command is not looked at)
RunRaisesNever(ok) == FALSE

\* _run, line 53: subprocess.check_output raises CalledProcessError when the
\* command exits with a failure
RunRaises(ok) == ~ok

JumpNever(current, b) == FALSE

\* (a checkout precedes every deletion)
JumpAlways(current, b) == TRUE

\* _request_removal, line 194: the branch to delete is the active checkout
JumpNeeded(current, b) == current = b

\* one call of _request_removal(repo, head, othername, defaultJump): the answer
\* given and whether the backend lets the checkout and the delete succeed are
\* inputs. The result carries the repository afterwards and the commands issued.
RequestRemoval(rf, hd, b, othername, defaultJump, answer, coWorks, delWorks) ==
    LET current == hd.branch
        accepted == ClickConfirm(answer, ConfirmDefault)
        asked == [branch |-> b, target |-> othername, accepted |-> accepted,
                  current |-> current]
        stay == [result |-> "declined", refs |-> rf, HEAD |-> hd, ops |-> <<>>,
                 prompt |-> asked, answer |-> answer]
    IN  IF ~accepted THEN stay
        ELSE
          LET jump == JumpNeeded(current, b)
              co == IF jump /\ coWorks THEN Checkout(rf, hd, defaultJump)
                    ELSE [ok |-> ~jump, refs |-> rf, HEAD |-> hd]
              coOps == IF jump
                       THEN << [op |-> "checkout", arg |-> defaultJump,
                                cur |-> hd.branch, ok |-> co.ok] >>
                       ELSE <<>>
          IN  IF RunRaises(co.ok)
              THEN [stay EXCEPT !.result = "crashed", !.ops = coOps]
              ELSE
                LET del == IF delWorks THEN DeleteBranch(co.refs, co.HEAD, b)
                           ELSE [ok |-> FALSE, refs |-> co.refs]
                    delOps == << [op |-> "delete", arg |-> b,
                                  cur |-> co.HEAD.branch, ok |-> del.ok] >>
                IN  [result |-> IF RunRaises(del.ok) THEN "crashed" ELSE "deleted",
                     refs |-> del.refs, HEAD |-> co.HEAD,
                     ops |-> coOps \o delOps, prompt |-> asked, answer |-> answer]

\* ---------------------------------------------------------------- git fetch
\* the remotes hold what the remote-tracking refs say: a fetch brings nothing
InSync(rf) == [rb \in RemoteBranches |-> rf[RemoteRef(rb)]]

\* main, lines 242-251: `git fetch --multiple [--prune] <remotes>`. The
\* remote-tracking refs of the remotes named take the commits the remotes
\* hold; the ref of a branch that is gone from its remote is removed when
\* pruning and kept otherwise. Local branches and the tags present stay as
\* they are.
Fetch(rf, up, rems, prune) ==
    [r \in AllRefs |->
        LET tracked == {rb \in RemoteBranches :
                          r = RemoteRef(rb) /\ \E k \in 1..Len(rems) : rems[k] = rb[1]}
        IN  IF tracked = {} THEN rf[r]
            ELSE LET rb == CHOOSE x \in tracked : TRUE
                 IN  IF up[rb] # 0 THEN up[rb]
                     ELSE IF prune THEN 0 ELSE rf[r]]

\* --------------------------------------------------------------------- Init
InitRepo ==
    /\ refs \in {f \in [AllRefs -> 0..MaxCommit] :
                    Cardinality({r \in AllRefs : f[r] # 0}) <= MaxRefs}
    /\ symHead \in {f \in [RemoteNames -> {NoBranch} \cup {Tail(rb) : rb \in RemoteBranches}] :
                      \A r \in RemoteNames :
                          f[r] # NoBranch =>
                              /\ (<<r>> \o f[r]) \in RemoteBranches
                              /\ refs[RemoteRef(<<r>> \o f[r])] # 0}
    /\ HEAD \in {[branch |-> n, commit |-> 0] : n \in {m \in LocalNames : refs[HeadRef(m)] # 0}}
                \cup {[branch |-> NoBranch, commit |-> c] : c \in Commits}
    /\ pc = "init"
    /\ err = ""
    /\ permanent = <<>>
    /\ remotes = <<>>
    /\ heads = <<>>
    /\ i = 1
    /\ target = NoTarget
    /\ tryRemote = {}
    /\ tryAgain = {}
    /\ prompts = <<>>
    /\ lastAnswer = ""
    /\ ops = <<>>
    /\ examined = <<>>
    /\ refs0 = refs
    /\ run = 1
    /\ prev = [ran |-> FALSE, permanent |-> <<>>, remotes |-> <<>>, prompts |-> <<>>]
    /\ inventory = NoInventory

\* the state when the tool is started, the remotes holding nothing new
Init ==
    /\ InitRepo
    /\ upstream = InSync(refs)

\* --------------------------------------------------------------------- main
\* the command line (-p, -f/-F) and the configuration file (_get_config)
CliPermanentChoices == {<<>>, << <<"main">>, <<"develop">> >>}
FetchOptions == {"unset", "yes", "no"}
PermanentChoices == {<<>>, << <<"main">> >>, << <<"main">>, <<"develop">> >>}
UpstreamChoices == {<<>>, <<"origin">>}
FastForwardChoices == {"ff_none", "ff_permanent", "ff_all"}

InSeq(x, sq) == \E k \in 1..Len(sq) : sq[k] = x

\* main, lines 223-227
ChoosePermanent(cli, permanent_branches) ==
    IF Len(cli) > 0 THEN cli ELSE permanent_branches

\* main, lines 229-233: `remote` is by then the dict _get_refs returned, whose
\* keys are the remotes that have a branch, in listing order
ChooseRemotes(got, upstream_names) ==
    IF Len(got.remoteOrder) > 0 THEN got.remoteOrder ELSE upstream_names

\* _createPermanent: the branch is created when exactly one of the remotes has it
CreatePermanent(rf, name, rems) ==
    LET candidateRemotes == {r \in RemoteNames :
                               /\ InSeq(r, rems)
                               /\ (<<r>> \o name) \in RemoteBranches
                               /\ rf[RemoteRef(<<r>> \o name)] # 0}
    IN  IF Cardinality(candidateRemotes) = 1 /\ HeadRef(name) \in DOMAIN rf
        THEN [rf EXCEPT ![HeadRef(name)] =
                 rf[RemoteRef(<<CHOOSE r \in candidateRemotes : TRUE>> \o name)]]
        ELSE rf

\* main, lines 254-257
RECURSIVE CreatePermanents(_, _, _, _)
CreatePermanents(rf, perms, rems, k) ==
    IF k > Len(perms) THEN rf
    ELSE CreatePermanents(
            IF rf[HeadRef(perms[k])] = 0 THEN CreatePermanent(rf, perms[k], rems) ELSE rf,
            perms, rems, k + 1)

\* main, lines 259-266: the unfinished fast-forward feature raises
FastForwardRaises(auto_fast_forward, perms, rems) ==
    \/ /\ auto_fast_forward \in {"ff_permanent", "ff_all"}
       /\ Len(rems) = 1
       /\ Len(perms) > 0
    \/ auto_fast_forward = "ff_all"

\* main, lines 238-251: whether the fetch is run
DoFetch(fetch, fetch_first) == IF fetch = "unset" THEN fetch_first ELSE fetch = "yes"

\* whether the fetch is run, over every command line and configuration
FetchDecisions == {DoFetch(fetch, fetch_first) : fetch \in FetchOptions, fetch_first \in BOOLEAN}

\* main, lines 238-251: the refs after the fetch step, over every setting of
\* fetch, fetch_first and fetch_prune
FetchResults(rf, up, rems) ==
    {IF fetches THEN Fetch(rf, up, rems, fetch_prune) ELSE rf :
        fetches \in FetchDecisions, fetch_prune \in BOOLEAN}

\* `repo.heads`: the local branches, in ref order
RepoHeads(rf) ==
    LET IsHead(r) == IsPrefix(<<"refs", "heads">>, r) /\ rf[r] # 0
        listed == SelectSeq(RefOrder, IsHead)
    IN  [k \in 1..Len(listed) |-> Tail2(listed[k])]

Stop(kind, error) ==
    /\ pc' = kind
    /\ err' = error
    /\ UNCHANGED <<heads, i, target, tryRemote, tryAgain, prompts, lastAnswer, ops, examined>>

\* main, line 219
GotRefs == GetRefs(ShowRef)

\* main, lines 216-267: everything before the loop. The command line and the
\* configuration are inputs; the fetch is a backend command that may fail
Start ==
    /\ pc = "init"
    /\ LET got == GotRefs
       IN  \E cli \in CliPermanentChoices, permanent_branches \in PermanentChoices,
              upstream_names \in UpstreamChoices,
              always_create_permanent_branches \in BOOLEAN :
            LET perms == ChoosePermanent(cli, permanent_branches)
                rems == ChooseRemotes(got, upstream_names)
            IN  /\ permanent' = perms
                /\ remotes' = rems
                /\ IF got.error # ""
                   THEN Stop("crashed", got.error) /\ UNCHANGED refs
                   ELSE IF Len(rems) = 0
                   THEN Stop("fatal", "ClickException") /\ UNCHANGED refs
                   ELSE \/ /\ \E fetch \in FetchOptions, fetch_first \in BOOLEAN :
                                DoFetch(fetch, fetch_first)
                           /\ Stop("crashed", "CalledProcessError")
                           /\ UNCHANGED refs
                        \/ \E fetched \in FetchResults(refs, upstream, rems) :
                             LET created == IF always_create_permanent_branches
                                            THEN CreatePermanents(fetched, perms, rems, 1)
                                            ELSE fetched
                             IN  \/ /\ \E auto_fast_forward \in FastForwardChoices :
                                         FastForwardRaises(auto_fast_forward, perms, rems)
                                    /\ Stop("crashed", "Exception")
                                    /\ refs' = created
                                 \/ /\ \E auto_fast_forward \in FastForwardChoices :
                                         ~FastForwardRaises(auto_fast_forward, perms, rems)
                                    /\ refs' = created
                                    /\ heads' = RepoHeads(created)
                                    /\ i' = 1
                                    /\ pc' = "loop"
                                    /\ UNCHANGED <<err, target, tryRemote, tryAgain, prompts,
                                                   lastAnswer, ops, examined>>
    /\ inventory' = [lines |-> ShowRef, got |-> GotRefs]
    /\ UNCHANGED <<symHead, HEAD, refs0, run, prev, upstream>>

\* ----------------------------------------------------------------- the loop
Branch == heads[i]

NextBranch ==
    /\ pc' = "loop"
    /\ i' = i + 1
    /\ target' = NoTarget
    /\ tryRemote' = {}
    /\ tryAgain' = {}

\* (the failure is reported and the loop goes on with the next branch)
CrashContinues(error) ==
    /\ NextBranch
    /\ err' = error

\* an exception raised inside the loop: nothing in main or _examine_branch
\* catches it, so it ends the run
Crash(error) ==
    /\ pc' = "crashed"
    /\ err' = error
    /\ UNCHANGED <<i, target, tryRemote, tryAgain>>

IsPermanentNever(name, perms) == FALSE

\* main, line 271: `head.name in permanent`
IsPermanent(name, perms) == InSeq(name, perms)

\* main, lines 269-275: a permanent branch is announced and skipped
SkipPermanent ==
    /\ pc = "loop"
    /\ i <= Len(heads)
    /\ IsPermanent(Branch, permanent)
    /\ NextBranch
    /\ UNCHANGED <<refs, symHead, HEAD, err, permanent, remotes, heads, prompts,
                   lastAnswer, ops, examined, refs0, run, prev, upstream, inventory>>

\* (the listing is answered from the refs read when the run started)
ListingRefsSnapshot == refs0

\* the refs `git branch --all --contains` looks at when _examine_branch runs
\* it: the repository as it is at that moment
ListingRefs == refs

\* main, line 278, and _examine_branch up to its first prompt: the listing is
\* fetched and the permanent-branch pass picks its target, or the fallback
\* pass is set up
ExamineBranch ==
    /\ pc = "loop"
    /\ i <= Len(heads)
    /\ ~IsPermanent(Branch, permanent)
    /\ examined' = Append(examined, Branch)
    /\ \E listingWorks \in BOOLEAN :
         LET desc == Descendants(ListingRefs, HEAD, Branch)
             found == PermTarget(desc, permanent, remotes)
         IN  IF ~listingWorks
             THEN Crash("CalledProcessError")
             ELSE IF found # NoTarget
             THEN /\ pc' = "perm"
                  /\ target' = found
                  /\ UNCHANGED <<err, i, tryRemote, tryAgain>>
             ELSE IF desc = {}
             THEN NextBranch /\ UNCHANGED err
             ELSE IF Len(permanent) = 0
             THEN Crash("IndexError")
             ELSE /\ pc' = "fallback"
                  /\ tryRemote' = {d \in desc : IsRemoteEntry(d)}
                  /\ tryAgain' = {d \in desc : ~IsRemoteEntry(d)}
                  /\ UNCHANGED <<err, i, target>>
    /\ UNCHANGED <<refs, symHead, HEAD, permanent, remotes, heads, prompts,
                   lastAnswer, ops, refs0, run, prev, upstream, inventory>>

\* whether the backend lets the checkout and the delete succeed: both, the
\* delete fails, or the checkout fails (and the delete is never reached)
BackendOutcomes == {<<TRUE, TRUE>>, <<TRUE, FALSE>>, <<FALSE, TRUE>>}

\* the effect of one _request_removal call on the repository and the histories
Removal(r) ==
    /\ refs' = r.refs
    /\ HEAD' = r.HEAD
    /\ ops' = ops \o r.ops
    /\ prompts' = Append(prompts, r.prompt)
    /\ lastAnswer' = r.answer

\* _examine_branch, lines 129-130 and 137-138: the one prompt of the
\* permanent-branch pass; the function returns whatever the answer
PermPrompt ==
    /\ pc = "perm"
    /\ \E answer \in Answers, works \in BackendOutcomes :
         LET r == RequestRemoval(refs, HEAD, Branch, target, permanent[1],
                                 answer, works[1], works[2])
         IN  /\ Removal(r)
             /\ IF r.result = "crashed"
                THEN Crash("CalledProcessError")
                ELSE NextBranch /\ UNCHANGED err
    /\ UNCHANGED <<symHead, permanent, remotes, heads, examined, refs0, run, prev, upstream, inventory>>

\* (remote-qualified and other entries are offered in any order)
NextCandidatesMixed(remoteLeft, localLeft) == remoteLeft \cup localLeft

\* the entries the fallback pass may offer next: the remote-qualified ones
\* first, then the others; within each group in the iteration order of a
\* Python set of strings, which is not fixed
NextCandidates(remoteLeft, localLeft) ==
    IF remoteLeft # {} THEN remoteLeft ELSE localLeft

\* _examine_branch, lines 140-151: one prompt of the fallback pass
FallbackPrompt ==
    /\ pc = "fallback"
    /\ \E other \in NextCandidates(tryRemote, tryAgain), answer \in Answers,
          works \in BackendOutcomes :
         LET r == RequestRemoval(refs, HEAD, Branch, other, permanent[1],
                                 answer, works[1], works[2])
             remoteLeft == tryRemote \ {other}
             localLeft == tryAgain \ {other}
         IN  /\ Removal(r)
             /\ IF r.result = "crashed"
                THEN Crash("CalledProcessError")
                ELSE IF r.result = "deleted" \/ (remoteLeft = {} /\ localLeft = {})
                THEN NextBranch /\ UNCHANGED err
                ELSE /\ tryRemote' = remoteLeft
                     /\ tryAgain' = localLeft
                     /\ UNCHANGED <<pc, err, i, target>>
    /\ UNCHANGED <<symHead, permanent, remotes, heads, examined, refs0, run, prev, upstream, inventory>>

\* main: the loop has run out of branches
Finish ==
    /\ pc = "loop"
    /\ i > Len(heads)
    /\ pc' = "done"
    /\ UNCHANGED <<refs, symHead, HEAD, err, permanent, remotes, heads, i, target,
                   tryRemote, tryAgain, prompts, lastAnswer, ops, examined, refs0,
                   run, prev, upstream, inventory>>

\* the tool is started a second time, on a repository that the first run
\* left as it found it
RunAgain ==
    /\ pc = "done"
    /\ run = 1
    /\ ops = <<>>
    /\ refs = refs0
    /\ run' = 2
    /\ prev' = [ran |-> TRUE, permanent |-> permanent, remotes |-> remotes,
                prompts |-> prompts]
    /\ pc' = "init"
    /\ permanent' = <<>>
    /\ remotes' = <<>>
    /\ heads' = <<>>
    /\ i' = 1
    /\ prompts' = <<>>
    /\ lastAnswer' = ""
    /\ ops' = <<>>
    /\ examined' = <<>>
    /\ refs0' = refs
    /\ inventory' = NoInventory
    /\ UNCHANGED <<refs, symHead, HEAD, err, target, tryRemote, tryAgain, upstream>>

Next ==
    \/ Start
    \/ SkipPermanent
    \/ ExamineBranch
    \/ PermPrompt
    \/ FallbackPrompt
    \/ Finish

Spec == Init /\ [][Next]_vars

NextTwice ==
    \/ Next
    \/ RunAgain

InitTwice ==
    /\ Init
    /\ Cardinality({r \in AllRefs : refs[r] # 0}) <= MaxRefsTwice

SpecTwice == InitTwice /\ [][NextTwice]_vars

\* the tool is started while the remotes have moved on: branches there were
\* pushed to, created or deleted since the last fetch
InitFetch ==
    /\ InitRepo
    /\ Cardinality({r \in AllRefs : refs[r] # 0}) <= MaxRefsFetch
    /\ upstream \in {u \in [RemoteBranches -> 0..MaxCommit] :
                       Cardinality({rb \in RemoteBranches : u[rb] # refs[RemoteRef(rb)]})
                           <= MaxMoved}

SpecFetch == InitFetch /\ [][Next]_vars

\* refs a repository may hold besides those of the runs above: a branch with
\* a slash in its name, the stash, notes, a remote branch whose name ends in
\* HEAD, and a remote-tracking ref without a remote (as git-svn writes them);
\* in the order `git show-ref` lists them
SampleRefs ==
    << <<"refs", "heads", "fb">>,
       <<"refs", "heads", "fix", "x">>,
       <<"refs", "notes", "commits">>,
       <<"refs", "remotes", "origin", "HEAD">>,
       <<"refs", "remotes", "origin", "fb", "HEAD">>,
       <<"refs", "remotes", "origin", "main">>,
       <<"refs", "remotes", "trunk">>,
       <<"refs", "stash">>,
       <<"refs", "tags", "v1">> >>

\* the output of `git show-ref` in a repository that holds the refs in S
ListingOf(S) ==
    LET Listed(r) == r \in S
        listed == SelectSeq(SampleRefs, Listed)
    IN  [k \in 1..Len(listed) |-> <<1, listed[k]>>]

\* an empty repository in which the tool has not run yet
InitRefs ==
    /\ Init
    /\ \A r \in AllRefs : refs[r] = 0

\* main, line 219: _get_refs is called, on any of the listings
ReadRefs ==
    /\ pc = "init"
    /\ \E S \in SUBSET {SampleRefs[k] : k \in 1..Len(SampleRefs)} :
          LET got == GetRefs(ListingOf(S))
          IN  /\ inventory' = [lines |-> ListingOf(S), got |-> got]
              /\ pc' = IF got.error # "" THEN "crashed" ELSE "inventory"
              /\ err' = got.error
    /\ UNCHANGED <<refs, symHead, HEAD, permanent, remotes, heads, i, target,
                   tryRemote, tryAgain, prompts, lastAnswer, ops, examined, refs0,
                   run, prev, upstream>>

SpecRefs == InitRefs /\ [][ReadRefs]_vars

\* =================================================================== claims
Started == pc # "init"

LastPrompt == prompts[Len(prompts)]

\* the step issues a prompt
Prompted == Len(prompts') = Len(prompts) + 1

Deleted(n) == \E k \in 1..Len(ops) : ops[k].op = "delete" /\ ops[k].arg = n /\ ops[k].ok

PromptedFor(n) == \E k \in 1..Len(prompts) : prompts[k].branch = n

\* t names a permanent branch: local, or remote-qualified with one of the remotes
NamesPermanent(t) ==
    \E k \in 1..Len(permanent) :
        \/ t = permanent[k]
        \/ \E j \in 1..Len(remotes) : t = RemoteQualified(remotes[j], permanent[k])

\* the local ref of some permanent branch contains branch b
PermanentContains(b) ==
    \E k \in 1..Len(permanent) :
        /\ HeadRef(permanent[k]) \in AllRefs
        /\ permanent[k] # b
        /\ Contains(refs[HeadRef(permanent[k])], refs[HeadRef(b)])

\* C1: a local branch named in the permanent list that exists when the run
\* starts is never examined, never prompted for and never deleted: it is
\* still there, at the same commit, in every state of the run.
C1_PermanentNeverDeleted ==
    Started =>
        \A n \in LocalNames :
            (InSeq(n, permanent) /\ refs0[HeadRef(n)] # 0) =>
                /\ refs[HeadRef(n)] = refs0[HeadRef(n)]
                /\ ~InSeq(n, examined)
                /\ ~PromptedFor(n)
                /\ \A k \in 1..Len(ops) : ~(ops[k].op = "delete" /\ ops[k].arg = n)

\* a finished run that deleted a branch and left alone a permanent branch whose
\* tip another local branch contains
C1_Witness ==
    /\ pc = "done"
    /\ \E d \in LocalNames : Deleted(d)
    /\ \E n \in LocalNames, m \in LocalNames :
          /\ InSeq(n, permanent)
          /\ m # n
          /\ refs0[HeadRef(n)] # 0
          /\ Contains(refs0[HeadRef(m)], refs0[HeadRef(n)])
          /\ refs[HeadRef(n)] # 0

\* C2: a delete is never issued for the branch that is checked out at that
\* moment; and when a prompt is accepted for the branch that is checked out,
\* exactly one checkout is issued for it, to the first permanent branch, and
\* it comes before the delete.
C2_CheckoutBeforeDelete ==
    /\ \A k \in 1..Len(ops) : ops[k].op = "delete" => ops[k].cur # ops[k].arg
    /\ \A p \in 1..Len(prompts) :
          (prompts[p].accepted /\ prompts[p].current = prompts[p].branch) =>
              LET b == prompts[p].branch
                  cos == {k \in 1..Len(ops) : ops[k].op = "checkout" /\ ops[k].cur = b}
              IN  /\ Cardinality(cos) = 1
                  /\ \A k \in cos : ops[k].arg = permanent[1]
                  /\ \A d \in 1..Len(ops) :
                        (ops[d].op = "delete" /\ ops[d].arg = b) =>
                            \A k \in cos : k < d /\ ops[k].ok

\* the checked-out branch was deleted after a switch to the fallback
C2_Witness ==
    /\ pc = "done"
    /\ \E p \in 1..Len(prompts), k \in 1..Len(ops), d \in 1..Len(ops) :
          /\ prompts[p].accepted
          /\ prompts[p].current = prompts[p].branch
          /\ ops[k].op = "checkout" /\ ops[k].cur = prompts[p].branch
          /\ ops[d].op = "delete" /\ ops[d].arg = prompts[p].branch /\ ops[d].ok
          /\ k < d
          /\ HEAD.branch = permanent[1]
          /\ refs[HeadRef(prompts[p].branch)] = 0

\* C3: whenever a prompt is issued for a branch that the local ref of some
\* permanent branch contains, the prompt's target names a permanent branch,
\* local or remote-qualified.
C3_PermanentTargetWins ==
    [][(Prompted /\ PermanentContains(Branch)) => NamesPermanent(prompts'[Len(prompts')].target)]_vars

\* a prompt naming a permanent target was issued for a branch that a
\* non-permanent local branch contains as well
C3_Witness ==
    /\ Len(prompts) > 0
    /\ NamesPermanent(LastPrompt.target)
    /\ ~LastPrompt.accepted
    /\ PermanentContains(LastPrompt.branch)
    /\ \E m \in LocalNames :
          /\ m # LastPrompt.branch
          /\ ~InSeq(m, permanent)
          /\ Contains(refs[HeadRef(m)], refs[HeadRef(LastPrompt.branch)])

\* the places of the permanent-branch pass that match: <<k, 0>> for the local
\* ref of the k-th permanent branch, <<k, j>> for its copy on the j-th remote
PermMatches(desc) ==
    {m \in (1..Len(permanent)) \X (0..Len(remotes)) :
        IF m[2] = 0 THEN permanent[m[1]] \in desc
        ELSE RemoteQualified(remotes[m[2]], permanent[m[1]]) \in desc}

Earlier(m, n) == m[1] < n[1] \/ (m[1] = n[1] /\ m[2] <= n[2])

MatchName(m) ==
    IF m[2] = 0 THEN permanent[m[1]] ELSE RemoteQualified(remotes[m[2]], permanent[m[1]])

\* C4: the target the permanent-branch pass reports is the earliest match:
\* permanent branches in list order, and for each the local ref before its
\* copies on the remotes in remote order.
C4_FirstMatchWins ==
    pc = "perm" =>
        LET ms == PermMatches(Descendants(refs, HEAD, Branch))
        IN  /\ ms # {}
            /\ \E m \in ms : (\A n \in ms : Earlier(m, n)) /\ target = MatchName(m)

\* with [main, develop], the remote copy of main is reported although the
\* local develop contains the branch too
C4_Witness ==
    /\ pc = "perm"
    /\ permanent = << <<"main">>, <<"develop">> >>
    /\ target = <<"remotes", "origin", "main">>
    /\ <<"develop">> \in Descendants(refs, HEAD, Branch)

\* C5 (as claimed): when a backend command fails while a branch is being
\* examined, every non-permanent local branch of the run is examined all the
\* same.
C5_Original_LaterBranchesExamined ==
    (err = "CalledProcessError" /\ examined # <<>>) =>
        \A k \in 1..Len(heads) : ~IsPermanent(heads[k], permanent) => InSeq(heads[k], examined)

\* C5 (amended): a backend failure while a branch is being examined ends the
\* run there: the run takes no further step, and no branch later in the
\* iteration order is examined, prompted for or deleted.
C5_FailureEndsRun ==
    (err = "CalledProcessError" /\ examined # <<>>) =>
        /\ pc = "crashed"
        /\ ~ENABLED Next
        /\ i \in 1..Len(heads)
        /\ examined[Len(examined)] = heads[i]
        /\ \A k \in (i + 1)..Len(heads) :
              /\ ~InSeq(heads[k], examined)
              /\ ~PromptedFor(heads[k])
              /\ refs[HeadRef(heads[k])] # 0

\* a backend command failed at a branch that a non-permanent branch follows
C5_Witness ==
    /\ pc = "crashed"
    /\ err = "CalledProcessError"
    /\ examined # <<>>
    /\ \E k \in (i + 1)..Len(heads) : ~IsPermanent(heads[k], permanent)

\* the repository with the deletions of this run undone
Undeleted == [r \in AllRefs |-> IF refs[r] = 0 /\ refs0[r] # 0 THEN refs0[r] ELSE refs[r]]

\* what _examine_branch would offer for the current branch, listing from rf
OfferedFrom(rf) ==
    LET desc == Descendants(rf, HEAD, Branch)
        found == PermTarget(desc, permanent, remotes)
    IN  IF found # NoTarget THEN {found} ELSE desc

\* the step calls _examine_branch and the listing succeeds
Examines == Len(examined') = Len(examined) + 1 /\ err' = ""

\* C6 (as claimed): the candidate targets found for a branch are those of
\* the refs as they were before any deletion of this run: a branch deleted
\* earlier still counts as a containing ref.
C6_Original_SnapshotCandidates ==
    [][(Examines /\ Len(permanent) > 0) =>
          (IF pc' = "perm" THEN {target'} ELSE tryRemote' \cup tryAgain') = OfferedFrom(Undeleted)]_vars

\* C6 (amended): each branch is evaluated against the repository as it is
\* when the branch is examined: a branch deleted earlier in the run is never
\* the target of a later prompt.
C6_DeletedNeverOffered ==
    \A j \in 1..Len(prompts), p \in 1..Len(prompts) :
        (j < p /\ prompts[j].accepted /\ Deleted(prompts[j].branch)) =>
            prompts[p].target # prompts[j].branch

\* a prompt was issued for a branch after a branch that contained it had
\* been deleted in the same run
C6_Witness ==
    \E j \in 1..Len(prompts), p \in 1..Len(prompts) :
        /\ j < p
        /\ prompts[j].accepted
        /\ Deleted(prompts[j].branch)
        /\ Contains(refs0[HeadRef(prompts[j].branch)], refs0[HeadRef(prompts[p].branch)])

\* C7 (as claimed): with an empty permanent list or an empty remote list the
\* run ends in the policy error before any branch is examined: nothing is
\* examined, prompted for or deleted.
C7_EmptyPolicyIsFatal ==
    (Started /\ (Len(permanent) = 0 \/ Len(remotes) = 0)) =>
        /\ examined = <<>>
        /\ prompts = <<>>
        /\ ops = <<>>

\* C8: a prompt answered "n" or left empty changes nothing: the refs and the
\* active checkout are as before and no checkout or delete is issued.
C8_DeclineChangesNothing ==
    [][(Prompted /\ lastAnswer' \in {"n", ""}) =>
          (refs' = refs /\ HEAD' = HEAD /\ ops' = ops)]_vars

\* the prompt for the checked-out branch was left unanswered and the branch
\* is still there
C8_Witness ==
    /\ Len(prompts) > 0
    /\ lastAnswer = ""
    /\ ~LastPrompt.accepted
    /\ HEAD.branch = LastPrompt.branch
    /\ refs = refs0
    /\ ops = <<>>
    /\ pc = "done"

\* some ref other than b's own contains b
OtherRefContains(b) ==
    \E r \in AllRefs \ {HeadRef(b)} : Contains(refs[r], refs[HeadRef(b)])

\* C9 (as claimed): no prompt is issued for a branch that no other ref
\* contains.
C9_NoPromptWithoutDescendant ==
    [][Prompted => OtherRefContains(Branch)]_vars

Asked(ps) == [k \in 1..Len(ps) |-> <<ps[k].branch, ps[k].target>>]

\* C10 (as claimed): a second run on the unchanged repository, with the same
\* policy and every prompt declined in both runs, issues the same prompts in
\* the same order as the first.
C10_SamePromptsTwice ==
    (/\ run = 2
     /\ pc = "done"
     /\ prev.ran
     /\ prev.permanent = permanent
     /\ prev.remotes = remotes
     /\ refs = refs0
     /\ ops = <<>>) => Asked(prompts) = Asked(prev.prompts)

\* the checkouts issued while branch b was the active checkout
CheckoutsOff(b) == {k \in 1..Len(ops) : ops[k].op = "checkout" /\ ops[k].cur = b}

\* C11: when the checkout that precedes the deletion of the active branch
\* fails, the branch is not deleted: it still exists, it is still the active
\* checkout, that checkout was issued once only, and no delete is issued for
\* the branch.
C11_FailedCheckoutAbortsDelete ==
    \A k \in 1..Len(ops) :
        (ops[k].op = "checkout" /\ ~ops[k].ok) =>
            LET b == ops[k].cur
            IN  /\ refs[HeadRef(b)] # 0
                /\ refs[HeadRef(b)] = refs0[HeadRef(b)]
                /\ HEAD.branch = b
                /\ CheckoutsOff(b) = {k}
                /\ \A d \in 1..Len(ops) : ~(ops[d].op = "delete" /\ ops[d].arg = b)

\* the prompt for the active branch was accepted, the checkout of the first
\* permanent branch failed, and the run ended with the branch in place
C11_Witness ==
    /\ pc = "crashed"
    /\ Len(prompts) > 0 /\ Len(ops) > 0
    /\ LastPrompt.accepted
    /\ LastPrompt.current = LastPrompt.branch
    /\ ops[Len(ops)].op = "checkout"
    /\ ~ops[Len(ops)].ok
    /\ ops[Len(ops)].cur = LastPrompt.branch
    /\ refs[HeadRef(LastPrompt.branch)] # 0

\* the names, as the listing prints them, of the local and remote-tracking
\* branches other than b whose tip contains b's tip
ContainingBranches(b) ==
    {n \in LocalNames \ {b} : Contains(refs[HeadRef(n)], refs[HeadRef(b)])}
        \cup {<<"remotes">> \o rb :
                 rb \in {x \in RemoteBranches : Contains(refs[RemoteRef(x)], refs[HeadRef(b)])}}

ContainingTags(b) == {t \in TagNames : Contains(refs[TagRef(t)], refs[HeadRef(b)])}

\* d is the name of a local or remote-tracking branch
IsBranchName(d) ==
    \/ d \in LocalNames
    \/ Len(d) > 1 /\ d[1] = "remotes" /\ Tail(d) \in RemoteBranches

\* d names a tag
IsTagName(d) == d \in TagNames \/ (Len(d) > 1 /\ d[1] = "tags" /\ Tail(d) \in TagNames)

\* the candidates an examination has left in the state
Candidates == IF pc = "perm" THEN {target} ELSE tryRemote \cup tryAgain

Terminated == pc \in {"done", "crashed"}

\* how often branch n was examined
TimesExamined(n) == Cardinality({k \in 1..Len(examined) : examined[k] = n})

\* the local branches the run started with that are not permanent
Cleanable == {n \in LocalNames : refs0[HeadRef(n)] # 0 /\ ~InSeq(n, permanent)}

\* no branch is examined twice, and a run whose loop ran out of branches has
\* examined every non-permanent local branch once
ExaminedOnceWhenDone ==
    /\ \A n \in LocalNames : TimesExamined(n) <= 1
    /\ pc = "done" => \A n \in Cleanable : TimesExamined(n) = 1

\* C13 (as claimed): a run in which no backend operation failed has, when it
\* is over, examined every local branch outside the permanent list exactly
\* once.
C13_AllExaminedOnce ==
    (/\ Terminated
     /\ err # "CalledProcessError"
     /\ \A k \in 1..Len(ops) : ops[k].ok) =>
        \A n \in Cleanable : TimesExamined(n) = 1

RemoteAndTagRefs == {RemoteRef(rb) : rb \in RemoteBranches} \cup {TagRef(t) : t \in TagNames}

NewPrompt == prompts'[Len(prompts')]

\* C15: in the fallback pass the candidates are offered one at a time, each
\* once, the remote-qualified ones before the others, and the pass stops at
\* the first accepted prompt: every earlier prompt for the branch was
\* declined, no remote-qualified candidate is offered after another kind, and
\* another kind is offered only when every remote-qualified candidate of the
\* branch has been offered and declined.
C15_RemoteCandidatesFirst ==
    [][(Prompted /\ pc = "fallback") =>
          /\ Len(prompts') = Len(prompts) + 1
          /\ NewPrompt.branch = Branch
          /\ \A k \in 1..Len(prompts) :
                prompts[k].branch = Branch =>
                    /\ ~prompts[k].accepted
                    /\ prompts[k].target # NewPrompt.target
                    /\ IsRemoteEntry(NewPrompt.target) => IsRemoteEntry(prompts[k].target)
          /\ ~IsRemoteEntry(NewPrompt.target) =>
                \A d \in Descendants(refs, HEAD, Branch) :
                    IsRemoteEntry(d) =>
                        \E k \in 1..Len(prompts) :
                            /\ prompts[k].branch = Branch
                            /\ prompts[k].target = d
                            /\ ~prompts[k].accepted]_vars

\* a remote-qualified candidate was declined, then a local one was accepted
\* for the same branch, and the branch was deleted
C15_Witness ==
    /\ pc = "done"
    /\ \E j \in 1..Len(prompts), p \in 1..Len(prompts) :
          /\ j < p
          /\ prompts[j].branch = prompts[p].branch
          /\ ~NamesPermanent(prompts[j].target)
          /\ IsRemoteEntry(prompts[j].target)
          /\ ~prompts[j].accepted
          /\ prompts[p].target \in LocalNames
          /\ prompts[p].accepted
          /\ Deleted(prompts[p].branch)

\* C16: when some permanent branch, local or on one of the remotes, contains
\* the branch examined, the permanent-branch pass takes the branch: one
\* prompt is issued for it, with the target that pass found, and whatever the
\* answer the run goes on to the next branch; a declined prompt leaves the
\* branch in place. The fallback pass is entered only for a branch that no
\* permanent branch contains.
C16_PermanentPassOnly ==
    [][/\ (Examines /\ PermMatches(Descendants(refs, HEAD, Branch)) # {}) =>
             (pc' = "perm" /\ ~PromptedFor(Branch))
       /\ pc' = "fallback" => PermMatches(Descendants(refs', HEAD', heads[i'])) = {}
       /\ pc = "perm" =>
             /\ Prompted
             /\ NewPrompt.branch = Branch
             /\ NewPrompt.target = target
             /\ pc' \in {"loop", "crashed"}
             /\ ~NewPrompt.accepted =>
                   (pc' = "loop" /\ i' = i + 1 /\ refs' = refs /\ refs[HeadRef(Branch)] # 0)
       /\ \A p \in 1..Len(prompts'), k \in 1..Len(prompts') :
             (NamesPermanent(prompts'[p].target) /\ k # p) =>
                 prompts'[k].branch # prompts'[p].branch]_vars

\* a run that is over issued a single prompt, naming a permanent branch, for
\* a branch that a non-permanent branch contains too; it was declined and
\* the branch is still there
C16_Witness ==
    /\ pc = "done"
    /\ \E p \in 1..Len(prompts) :
          LET b == prompts[p].branch
          IN  /\ NamesPermanent(prompts[p].target)
              /\ ~prompts[p].accepted
              /\ Cardinality({k \in 1..Len(prompts) : prompts[k].branch = b}) = 1
              /\ refs[HeadRef(b)] # 0
              /\ \E m \in ContainingBranches(b) : ~NamesPermanent(m)

\* the commands the step issues
NewOps == SubSeq(ops', Len(ops) + 1, Len(ops'))

IssuesCheckout == \E k \in 1..Len(NewOps) : NewOps[k].op = "checkout"

\* C17: a step changes the active checkout, or issues a checkout, only when
\* it is a prompt accepted for the branch that is checked out; the checkout
\* then goes to the first permanent branch. So a prompt accepted for another
\* branch, a declined prompt and every step of a run whose HEAD is detached
\* leave the active checkout alone.
C17_CheckoutOnlyOffDeletedBranch ==
    [][/\ (HEAD' # HEAD \/ IssuesCheckout) =>
             /\ Prompted
             /\ NewPrompt.accepted
             /\ HEAD.branch # NoBranch
             /\ NewPrompt.branch = HEAD.branch
             /\ NewOps[1] = [op |-> "checkout", arg |-> permanent[1],
                              cur |-> HEAD.branch, ok |-> HEAD' # HEAD]
             /\ HEAD' # HEAD => HEAD' = [branch |-> permanent[1], commit |-> 0]
       /\ (Prompted /\ NewPrompt.accepted /\ NewPrompt.branch # HEAD.branch) =>
             (HEAD' = HEAD /\ ~IssuesCheckout /\ Len(NewOps) = 1)
       /\ (Prompted /\ ~NewPrompt.accepted) => (HEAD' = HEAD /\ NewOps = <<>>)
       /\ HEAD.branch = NoBranch => (HEAD' = HEAD /\ ~IssuesCheckout)]_vars

\* in one run a branch that was not checked out was deleted without a
\* checkout, and the checked-out branch was deleted after one: the active
\* checkout is now the first permanent branch
C17_Witness ==
    /\ pc = "done"
    /\ Len(permanent) > 0
    /\ HEAD.branch = permanent[1]
    /\ Cardinality({k \in 1..Len(ops) : ops[k].op = "checkout"}) = 1
    /\ \E a \in 1..Len(ops), b \in 1..Len(ops) :
          /\ ops[a].op = "delete" /\ ops[a].ok
          /\ ops[b].op = "delete" /\ ops[b].ok
          /\ ops[a].arg # ops[b].arg
          /\ CheckoutsOff(ops[a].arg) = {}
          /\ CheckoutsOff(ops[b].arg) # {}

\* the refs of the listing that was read
ListedRefs == {inventory.lines[k][2] : k \in 1..Len(inventory.lines)}

UnderHeads(r) == Len(r) > 2 /\ r[1] = "refs" /\ r[2] = "heads"

UnderTags(r) == Len(r) > 2 /\ r[1] = "refs" /\ r[2] = "tags"

\* refs/remotes/<name>/<branch>
UnderRemote(r) == Len(r) > 3 /\ r[1] = "refs" /\ r[2] = "remotes"

\* the stash, or refs/remotes/<name>/HEAD
StashOrHeadPointer(r) == r = <<"refs", "stash">> \/ (UnderRemote(r) /\ Len(r) = 4 /\ r[4] = "HEAD")

\* the stash, or any ref under refs/remotes/ whose last component is HEAD
StashOrEndsInHead(r) ==
    r = <<"refs", "stash">> \/ (Len(r) > 2 /\ r[1] = "refs" /\ r[2] = "remotes" /\ r[Len(r)] = "HEAD")

\* the inventory holds the refs in K, each in the collection of its kind
HoldsExactly(K) ==
    /\ inventory.got.local = {Tail2(r) : r \in {x \in K : UnderHeads(x)}}
    /\ inventory.got.tags = {Tail2(r) : r \in {x \in K : UnderTags(x)}}
    /\ inventory.got.remote =
          {<<r[3], SubSeq(r, 4, Len(r))>> : r \in {x \in K : UnderRemote(x)}}

\* what the code does: it also drops every remote branch whose name ends in
\* /HEAD, and a ref refs/remotes/HEAD
InventorySkipsEndsInHead ==
    pc \in {"inventory", "crashed"} =>
        LET kept == {r \in ListedRefs : ~StashOrEndsInHead(r)}
        IN  /\ inventory.got.error # "" <=>
                  \E r \in kept : ~(UnderHeads(r) \/ UnderTags(r) \/ UnderRemote(r))
            /\ inventory.got.error = "" => HoldsExactly(kept)

\* C18 (as claimed): reading the inventory fails exactly when the listing
\* holds a ref that is neither a local branch, a tag, a branch of a remote,
\* the stash nor a remote's HEAD pointer; when it succeeds, the three
\* collections hold the listed refs, less the stash and the remotes' HEAD
\* pointers, each in the collection of its kind.
C18_InventoryMatchesListing ==
    pc \in {"inventory", "crashed"} =>
        LET kept == {r \in ListedRefs : ~StashOrHeadPointer(r)}
        IN  /\ inventory.got.error # "" <=>
                  \E r \in kept : ~(UnderHeads(r) \/ UnderTags(r) \/ UnderRemote(r))
            /\ inventory.got.error = "" => HoldsExactly(kept)

\* the local branches deleted so far in this run
DeletedBranches == {n \in LocalNames : Deleted(n) /\ refs[HeadRef(n)] = 0 /\ refs0[HeadRef(n)] # 0}

\* some ref that exists holds commit c
StillHeld(c) == \E r \in AllRefs : Contains(refs[r], c)

\* C19: in a run whose HEAD is on a branch, the tip of every branch deleted
\* so far is contained in a ref that exists.
C19_NoCommitLost ==
    HEAD.branch # NoBranch =>
        \A n \in DeletedBranches : StillHeld(refs0[HeadRef(n)])

\* two non-permanent branches at the same commit, which no other ref holds;
\* every prompt of the run was accepted: one of the two was deleted, the
\* other is still there
C19_Witness ==
    /\ pc = "done"
    /\ HEAD.branch # NoBranch
    /\ \A k \in 1..Len(prompts) : prompts[k].accepted
    /\ \E a \in LocalNames, b \in LocalNames :
          /\ a # b
          /\ ~InSeq(a, permanent) /\ ~InSeq(b, permanent)
          /\ refs0[HeadRef(a)] # 0
          /\ refs0[HeadRef(a)] = refs0[HeadRef(b)]
          /\ a \in DeletedBranches
          /\ refs[HeadRef(b)] = refs0[HeadRef(b)]
          /\ \A r \in AllRefs \ {HeadRef(b)} : ~Contains(refs[r], refs0[HeadRef(a)])

\* t names a local or remote-tracking branch that exists
ExistingBranch(t) ==
    \/ t \in LocalNames /\ refs[HeadRef(t)] # 0
    \/ /\ Len(t) > 1
       /\ t[1] = "remotes"
       /\ Tail(t) \in RemoteBranches
       /\ refs[RemoteRef(Tail(t))] # 0

\* C20 (as claimed): the target of every prompt names a local or
\* remote-tracking branch that exists when the prompt is issued, other than
\* the branch examined.
C20_TargetIsExistingBranch ==
    [][Prompted => (ExistingBranch(NewPrompt.target) /\ NewPrompt.target # Branch)]_vars

====
